---- MODULE Spec2Model ----
(***************************************************************************)
(* Model of the trivia API request handlers of backend/flaskr/__init__.py. *)
(* The stored state is the two tables of the storage gateway (questions in *)
(* the order the gateway returns them, categories as id -> label) and the  *)
(* gateway's identifier sequence.  Every handler is one action: it reads   *)
(* its input, computes the response exactly as the handler does, and       *)
(* records the request in req and the response in resp.                    *)
(* Texts are tuples of one-character strings so that substring search and  *)
(* case folding are computed, not assumed.                                 *)
(***************************************************************************)
EXTENDS Integers, Sequences, FiniteSets, TLC

VARIABLES
    questions,   \* the questions table, in the order the gateway returns it
    categories,  \* the categories table: id -> type
    nextId,      \* the identifier the gateway gives the next inserted question
    deleted,     \* history: the identifiers a delete has answered 200 for
    req,         \* the last request
    resp         \* the response to it

vars == <<questions, categories, nextId, deleted, req, resp>>

QUESTIONS_PER_PAGE == 10

(* ------------------------------ bounds --------------------------------- *)
\* number of questions the small dataset is seeded with
SeedSize == 3
\* highest identifier the gateway hands out under Spec
MaxId == 5
\* highest identifier the gateway hands out under PageSpec
MaxPageId == 12
\* page numbers range over -MaxPage .. MaxPage
MaxPage == 3

(* ------------------------------ helpers -------------------------------- *)
Min(a, b) == IF a < b THEN a ELSE b
Max(a, b) == IF a > b THEN a ELSE b

Range(s) == {s[i] : i \in 1..Len(s)}

\* wire values of "currentCategory" that are not a label
NULL == "<null>"
ABSENT == "<absent>"

(* Python list slicing s[start:end] with step 1: a negative bound counts   *)
(* from the end of the list, and both bounds are clamped to 0 .. len(s).   *)
PyIndex(i, n) == IF i < 0 THEN Max(i + n, 0) ELSE Min(i, n)

PySlice(s, start, end) ==
    LET lo == PyIndex(start, Len(s))
        hi == PyIndex(end, Len(s))
    IN  IF lo >= hi THEN <<>> ELSE SubSeq(s, lo + 1, hi)

(* ------------------------------ texts ---------------------------------- *)
\* case folding of one character, as ILIKE compares
LowerChar(c) ==
    CASE c = "A" -> "a"
      [] c = "B" -> "b"
      [] c = "C" -> "c"
      [] OTHER -> c

Lower(s) == [i \in 1..Len(s) |-> LowerChar(s[i])]

(* SQL LIKE matching of text t against pattern p: "%" matches any run of   *)
(* characters, "_" matches any one character, a backslash makes the next   *)
(* pattern character literal.                                              *)
RECURSIVE LikeMatch(_, _)
LikeMatch(t, p) ==
    IF Len(p) = 0 THEN Len(t) = 0
    ELSE IF p[1] = "%" THEN
        \E k \in 0..Len(t) : LikeMatch(SubSeq(t, k + 1, Len(t)), Tail(p))
    ELSE IF Len(t) = 0 THEN FALSE
    ELSE IF p[1] = "_" THEN LikeMatch(Tail(t), Tail(p))
    ELSE IF p[1] = "\\" /\ Len(p) >= 2 THEN
        t[1] = p[2] /\ LikeMatch(Tail(t), Tail(Tail(p)))
    ELSE t[1] = p[1] /\ LikeMatch(Tail(t), Tail(p))

\* column.ilike(pattern): LIKE on the case-folded column and pattern
ILike(t, p) == LikeMatch(Lower(t), Lower(p))

(* ------------------------------ gateway -------------------------------- *)
\* Question.format(): the flat record of a row
format(q) ==
    [id |-> q.id, question |-> q.question, answer |-> q.answer,
     difficulty |-> q.difficulty, category |-> q.category]

formatAll(qs) == [i \in 1..Len(qs) |-> format(qs[i])]

\* Query.get(id) on the questions table: the rows with that identifier
getQuestion(id) == SelectSeq(questions, LAMBDA q : q.id = id)

\* question.insert(): the row gets the next identifier and goes last
insertQuestion(qs, id, f) ==
    Append(qs, [id |-> id, question |-> f.question, answer |-> f.answer,
                difficulty |-> f.difficulty, category |-> f.category])

\* question.delete(): the row is removed
deleteQuestion(qs, id) == SelectSeq(qs, LAMBDA q : q.id # id)

\* the {id: type} mapping both listing handlers build
categories_dict == categories

(* ------------------------------ seed data ------------------------------ *)
QTexts == << <<"A", "b">>, <<"b", "_">>, <<"B", "A">> >>
ATexts == << <<"c">>, <<"a">>, <<"A", "b">> >>

SeedCategories ==
    (1 :> "Science") @@ (2 :> "Art") @@ (3 :> "Geography")
        @@ (4 :> "History") @@ (5 :> "Entertainment") @@ (6 :> "Sports")

SeedQuestion(i) ==
    [id |-> i,
     question |-> QTexts[1 + ((i - 1) % 3)],
     answer |-> ATexts[1 + ((i - 1) % 3)],
     difficulty |-> 1 + ((i - 1) % 5),
     category |-> 1 + ((i - 1) % 2)]

Seed(n) == [i \in 1..n |-> SeedQuestion(i)]

(* ------------------------------ responses ------------------------------ *)
NoQuestions == <<>>

Response(status, message) ==
    [status |-> status, message |-> message, questions |-> NoQuestions,
     totalQuestions |-> -1, currentCategory |-> ABSENT, question |-> <<>>,
     categories |-> <<>>]

\* the registered error handlers
not_found == Response(404, "Not found")
unprocessable_entity == Response(422, "Unprocessable entity")
internal_server_error == Response(500, "Internal server error")

Success(message) == Response(200, message)

(* ------------------------------ requests ------------------------------- *)
\* a JSON member or query argument: absent, null, or a value
Absent(d) == [kind |-> "absent", v |-> d]
Value(x) == [kind |-> "value", v |-> x]

NoPayload ==
    [question |-> Absent(<<>>), answer |-> Absent(<<>>),
     difficulty |-> Absent(0), category |-> Absent(0)]

\* a request: the operation and its inputs (unused inputs at their default)
Request(op) ==
    [op |-> op, page |-> Absent(0), id |-> 0, payload |-> NoPayload,
     term |-> <<>>, prev |-> <<>>, cat |-> 0, session |-> FALSE]

NoRequest == Request("none")

(* ------------------------------ handlers ------------------------------- *)
\* GET /categories
get_categories ==
    /\ resp' = IF Cardinality(DOMAIN categories_dict) = 0
                THEN not_found
                ELSE [Success("") EXCEPT !.categories = categories_dict]
    /\ UNCHANGED <<questions, categories, nextId>>

\* request.args.get("page", 1, type=int): the default for a missing or
\* non-numeric argument
ParsePage(arg) == IF arg.kind = "value" THEN arg.v ELSE 1

\* variant: the page number taken as zero-based
PageStartZeroBased(page) == page * QUESTIONS_PER_PAGE

PageStart(page) == (page - 1) * QUESTIONS_PER_PAGE

PageEnd(page) == PageStart(page) + QUESTIONS_PER_PAGE

\* GET /questions?page=arg
get_questions(arg) ==
    LET page == ParsePage(arg)
        formatted_questions == formatAll(questions)
        window == PySlice(formatted_questions, PageStart(page), PageEnd(page))
    IN  /\ resp' = IF Len(window) = 0
                    THEN not_found
                    ELSE [Success("") EXCEPT
                            !.questions = window,
                            !.totalQuestions = Len(formatted_questions),
                            !.categories = categories_dict,
                            !.currentCategory = ""]
        /\ UNCHANGED <<questions, categories, nextId>>

\* variant: the row is looked up and reported deleted, but never removed
delete_question_keeps_row(question_id) ==
    LET question == getQuestion(question_id)
    IN  /\ resp' = IF Len(question) = 0
                    THEN unprocessable_entity
                    ELSE Success("Question successfully deleted")
        /\ UNCHANGED <<questions, categories, nextId>>

\* variant: a missing row is reported as the read handlers report it
delete_question_not_found(question_id) ==
    LET question == getQuestion(question_id)
    IN  IF Len(question) = 0
        THEN /\ resp' = not_found
             /\ UNCHANGED <<questions, categories, nextId>>
        ELSE /\ questions' = deleteQuestion(questions, question_id)
             /\ resp' = Success("Question successfully deleted")
             /\ UNCHANGED <<categories, nextId>>

\* DELETE /questions/<question_id>
delete_question(question_id) ==
    LET question == getQuestion(question_id)
    IN  IF Len(question) = 0
        THEN /\ resp' = unprocessable_entity
             /\ UNCHANGED <<questions, categories, nextId>>
        ELSE /\ questions' = deleteQuestion(questions, question_id)
             /\ resp' = Success("Question successfully deleted")
             /\ UNCHANGED <<categories, nextId>>

Fields == <<"question", "answer", "difficulty", "category">>

(* The presence test of create_question, evaluated left to right as the   *)
(* "or" chain is: subscripting an absent member raises KeyError, the first *)
(* null member ends the chain.                                             *)
RECURSIVE CheckFields(_, _)
CheckFields(data, i) ==
    IF i > Len(Fields) THEN "ok"
    ELSE IF data[Fields[i]].kind = "absent" THEN "KeyError"
    ELSE IF data[Fields[i]].kind = "null" THEN "null"
    ELSE CheckFields(data, i + 1)

\* variant: the row is inserted before the null test is acted on
create_question_insert_first(data) ==
    LET checked == CheckFields(data, 1)
    IN  IF checked = "KeyError"
        THEN /\ resp' = internal_server_error
             /\ UNCHANGED <<questions, categories, nextId>>
        ELSE /\ questions' = insertQuestion(questions, nextId,
                                 [question |-> data.question.v,
                                  answer |-> data.answer.v,
                                  difficulty |-> data.difficulty.v,
                                  category |-> data.category.v])
             /\ nextId' = nextId + 1
             /\ resp' = IF checked = "null"
                         THEN unprocessable_entity
                         ELSE Success("Question successfully created")
             /\ UNCHANGED categories

\* POST /questions
create_question(data) ==
    LET checked == CheckFields(data, 1)
    IN  IF checked = "KeyError"
        THEN /\ resp' = internal_server_error
             /\ UNCHANGED <<questions, categories, nextId>>
        ELSE IF checked = "null"
        THEN /\ resp' = unprocessable_entity
             /\ UNCHANGED <<questions, categories, nextId>>
        ELSE /\ questions' = insertQuestion(questions, nextId,
                                 [question |-> data.question.v,
                                  answer |-> data.answer.v,
                                  difficulty |-> data.difficulty.v,
                                  category |-> data.category.v])
             /\ nextId' = nextId + 1
             /\ resp' = Success("Question successfully created")
             /\ UNCHANGED categories

\* the pattern f"%{search_term}%"
SearchPattern(search_term) == <<"%">> \o search_term \o <<"%">>

\* POST /questions/search
search_questions(search_term) ==
    LET found == SelectSeq(questions,
                   LAMBDA q : ILike(q.question, SearchPattern(search_term)))
        formatted_questions == formatAll(found)
    IN  /\ resp' = IF Len(formatted_questions) = 0
                    THEN not_found
                    ELSE [Success("") EXCEPT
                            !.questions = formatted_questions,
                            !.totalQuestions = Len(formatted_questions),
                            !.currentCategory = NULL]
        /\ UNCHANGED <<questions, categories, nextId>>

\* the rows of a category, as both category filters select them
InCategory(qs, category_id) ==
    SelectSeq(qs, LAMBDA q : q.category = category_id)

\* GET /categories/<category_id>/questions
get_questions_by_category(category_id) ==
    LET formatted_questions == formatAll(InCategory(questions, category_id))
    IN  /\ resp' = IF Len(formatted_questions) = 0
                    THEN not_found
                    ELSE IF category_id \notin DOMAIN categories
                    THEN internal_server_error
                    ELSE [Success("") EXCEPT
                            !.questions = formatted_questions,
                            !.totalQuestions = Len(formatted_questions),
                            !.currentCategory = categories[category_id]]
        /\ UNCHANGED <<questions, categories, nextId>>

\* variant: the category of the quiz is ignored
QuizCandidatesAnyCategory(qs, quiz_category_id) == qs

\* the candidates of a quiz: all questions for category 0
QuizCandidates(qs, quiz_category_id) ==
    IF quiz_category_id = 0 THEN qs ELSE InCategory(qs, quiz_category_id)

\* variant: only the latest previous question is excluded
QuizFilteredLastOnly(formatted_questions, previous_questions) ==
    SelectSeq(formatted_questions,
              LAMBDA q : \/ Len(previous_questions) = 0
                         \/ q.id # previous_questions[Len(previous_questions)])

\* the candidates that are not among the previous questions
QuizFiltered(formatted_questions, previous_questions) ==
    SelectSeq(formatted_questions,
              LAMBDA q : q.id \notin Range(previous_questions))

\* POST /quizzes; random.choice is any element of the filtered list
get_quiz_question(previous_questions, quiz_category_id) ==
    LET formatted_questions ==
            formatAll(QuizCandidates(questions, quiz_category_id))
        filtered_questions ==
            QuizFiltered(formatted_questions, previous_questions)
    IN  /\ IF Len(filtered_questions) = 0
           THEN resp' = not_found
           ELSE \E i \in 1..Len(filtered_questions) :
                  resp' = [Success("") EXCEPT
                             !.question = <<filtered_questions[i]>>]
        /\ UNCHANGED <<questions, categories, nextId>>

(* ------------------------------ inputs --------------------------------- *)
\* ?page= missing, non-numeric, or an integer
PageArgs ==
    {Absent(0), [kind |-> "text", v |-> 0]}
        \cup {Value(p) : p \in (0 - MaxPage)..MaxPage}

SearchTerms ==
    { <<>>, <<"a">>, <<"B">>, <<"a", "B">>, <<"b", "a">>, <<"c">>, <<"x">>,
      <<"_">>, <<"%">>, <<"a", "_">>, <<"\\">>, <<"\\", "_">> }

\* category ids in requests: 0, two seeded categories, one without a row
CategoryIds == {0, 1, 2, 7}

Kinds == {"absent", "null", "value"}

Member(kind, x, d) ==
    IF kind = "value" THEN Value(x) ELSE [kind |-> kind, v |-> d]

Payload(kq, ka, kd, kc, c) ==
    [question |-> Member(kq, <<"c", "A">>, <<>>),
     answer |-> Member(ka, <<"B">>, <<>>),
     difficulty |-> Member(kd, 1, 0),
     category |-> Member(kc, c, 0)]

\* create payloads: complete ones, and ones with one or two members null or
\* absent, in every position and order
Payloads ==
    {Payload(k[1], k[2], k[3], k[4], c) :
        k \in {kk \in [1..4 -> Kinds] :
                  Cardinality({i \in 1..4 : kk[i] # "value"}) <= 2},
        c \in {1, 7}}

PagePayloads ==
    {Payload("value", "value", "value", "value", 1),
     Payload("value", "null", "value", "value", 1),
     Payload("value", "value", "absent", "value", 1)}

\* previous_questions lists of free-standing quiz requests: empty, partial,
\* complete, unordered, repeating, and naming identifiers never issued
PrevLists ==
    { <<>>, <<1>>, <<2>>, <<1, 3>>, <<3, 1>>, <<1, 1>>, <<2, 4>>,
      <<1, 2, 3>>, <<5, 4, 3, 2, 1>>, <<99>> }

(* ------------------------------ requests served ------------------------ *)
Categories ==
    /\ req' = Request("categories")
    /\ get_categories
    /\ UNCHANGED deleted

List ==
    \E arg \in PageArgs :
        /\ req' = [Request("list") EXCEPT !.page = arg]
        /\ get_questions(arg)
        /\ UNCHANGED deleted

Delete ==
    \E question_id \in 0..nextId :
        /\ req' = [Request("delete") EXCEPT !.id = question_id]
        /\ delete_question(question_id)
        /\ deleted' = IF resp'.status = 200
                       THEN deleted \cup {question_id} ELSE deleted

CreateFrom(payloads, maxId) ==
    \E data \in payloads :
        /\ CheckFields(data, 1) = "ok" => nextId <= maxId
        /\ req' = [Request("create") EXCEPT !.payload = data]
        /\ create_question(data)
        /\ UNCHANGED deleted

Create == CreateFrom(Payloads, MaxId)

Search ==
    \E search_term \in SearchTerms :
        /\ req' = [Request("search") EXCEPT !.term = search_term]
        /\ search_questions(search_term)
        /\ UNCHANGED deleted

ByCategory ==
    \E category_id \in CategoryIds :
        /\ req' = [Request("byCategory") EXCEPT !.id = category_id]
        /\ get_questions_by_category(category_id)
        /\ UNCHANGED deleted

Quiz ==
    \E previous_questions \in PrevLists, c \in CategoryIds :
        /\ req' = [Request("quiz") EXCEPT !.prev = previous_questions, !.cat = c]
        /\ get_quiz_question(previous_questions, c)
        /\ UNCHANGED deleted

(* A quiz session is held by the client: it starts with an empty list and  *)
(* resends the list with the identifier of each question it was given.     *)
QuizSessionStart ==
    \E c \in CategoryIds :
        /\ req' = [Request("quiz") EXCEPT !.cat = c, !.session = TRUE]
        /\ get_quiz_question(<<>>, c)
        /\ UNCHANGED deleted

QuizSessionTurn ==
    /\ req.op = "quiz" /\ req.session /\ resp.status = 200
    /\ LET previous_questions == Append(req.prev, resp.question[1].id)
       IN  /\ req' = [req EXCEPT !.prev = previous_questions]
           /\ get_quiz_question(previous_questions, req.cat)
    /\ UNCHANGED deleted

(* ------------------------------ specifications ------------------------- *)
Init ==
    /\ questions = Seed(SeedSize)
    /\ categories = SeedCategories
    /\ nextId = SeedSize + 1
    /\ deleted = {}
    /\ req = NoRequest
    /\ resp = Response(0, "")

Next ==
    \/ Categories
    \/ List
    \/ Delete
    \/ Create
    \/ Search
    \/ ByCategory
    \/ Quiz
    \/ QuizSessionStart
    \/ QuizSessionTurn

Spec == Init /\ [][Next]_vars

\* the paging dataset: one full page of seeded questions
PageInit ==
    /\ questions = Seed(QUESTIONS_PER_PAGE)
    /\ categories = SeedCategories
    /\ nextId = QUESTIONS_PER_PAGE + 1
    /\ deleted = {}
    /\ req = NoRequest
    /\ resp = Response(0, "")

PageCreate == CreateFrom(PagePayloads, MaxPageId)

PageNext ==
    \/ List
    \/ Delete
    \/ PageCreate

PageSpec == PageInit /\ [][PageNext]_vars

(* ------------------------------ properties ----------------------------- *)
Ids(qs) == {qs[i].id : i \in 1..Len(qs)}

\* the questions a response carries, in its list or as its quiz question
Returned == Range(resp.questions) \cup Range(resp.question)

\* t occurs in s as a run of consecutive characters
IsSubstring(t, s) ==
    \E i \in 0..(Len(s) - Len(t)) : SubSeq(s, i + 1, i + Len(t)) = t

\* C1: for a page number >= 1, list returns min(10, max(0, T - 10*(page-1)))
\* questions, the elements at zero-indexed positions [(page-1)*10,
\* (page-1)*10+10) of the full result set, and every successful list response
\* carries totalQuestions = T.
C1_PageWindow ==
    req.op = "list" =>
        LET T == Len(questions)
            page == ParsePage(req.page)
            n == Min(10, Max(0, T - 10 * (page - 1)))
        IN  /\ resp.status = 200 => resp.totalQuestions = T
            /\ page >= 1 =>
                /\ Len(resp.questions) = n
                /\ n > 0 => resp.status = 200
                /\ \A i \in 1..n :
                     resp.questions[i] = format(questions[(page - 1) * 10 + i])

C1_Witness ==
    /\ req.op = "list"
    /\ ParsePage(req.page) = 2
    /\ resp.status = 200
    /\ Len(questions) > 10
    /\ Len(resp.questions) = Len(questions) - 10

\* C2: list answers successfully only for a page with page >= 1 and
\* (page-1)*10 < T; for every other page number it yields NotFound.
C2_OnlyPagesWithData ==
    req.op = "list" =>
        LET T == Len(questions)
            page == ParsePage(req.page)
        IN  IF page >= 1 /\ (page - 1) * 10 < T
            THEN resp.status = 200
            ELSE resp = not_found

\* C3: create with any of the four fields null or absent yields Unprocessable
\* and leaves the stored questions as they were.
C3_MissingFieldUnprocessable ==
    [][(/\ req'.op = "create"
        /\ \E i \in 1..Len(Fields) : req'.payload[Fields[i]].kind # "value")
       => (resp' = unprocessable_entity /\ questions' = questions)]_vars

\* C4: byCategory(id) yields NotFound whenever id has no category row or no
\* stored question references id; otherwise it returns exactly the questions
\* referencing id, their number, and the category's label.
C4_ByCategory ==
    req.op = "byCategory" =>
        LET matching == SelectSeq(questions, LAMBDA q : q.category = req.id)
        IN  IF req.id \notin DOMAIN categories \/ Len(matching) = 0
            THEN resp = not_found
            ELSE /\ resp.status = 200
                 /\ resp.questions = matching
                 /\ resp.totalQuestions = Len(matching)
                 /\ resp.currentCategory = categories[req.id]

\* C5: once a delete of an identifier has succeeded, no later response
\* carries a question with that identifier, and no stored question has it
\* (a later create does not reuse it).
C5_DeletedNeverReturned ==
    /\ \A q \in Returned : q.id \notin deleted
    /\ Ids(questions) \cap deleted = {}

C5_Witness ==
    /\ Cardinality(deleted) >= 2
    /\ nextId > SeedSize + 1
    /\ req.op = "list"
    /\ resp.status = 200

\* C6: delete of an identifier that is not stored yields Unprocessable (422),
\* not NotFound, and leaves the stored questions unchanged; so does the
\* second delete of an identifier.
C6_DeleteMissing ==
    [][(req'.op = "delete" /\ req'.id \notin Ids(questions))
       => (resp' = unprocessable_entity /\ questions' = questions)]_vars

C6_Witness ==
    /\ req.op = "delete"
    /\ req.id \in deleted
    /\ resp = unprocessable_entity

\* C7: quiz takes all questions as candidates for category 0 and the
\* questions of category c otherwise; it yields NotFound exactly when every
\* candidate's identifier is a previous question, and otherwise returns one
\* candidate whose identifier is not a previous question.
C7_QuizSelection ==
    req.op = "quiz" =>
        LET candidates ==
                IF req.cat = 0 THEN Range(questions)
                ELSE {q \in Range(questions) : q.category = req.cat}
            previous == Range(req.prev)
        IN  IF \A q \in candidates : q.id \in previous
            THEN resp = not_found
            ELSE /\ resp.status = 200
                 /\ Len(resp.question) = 1
                 /\ resp.question[1] \in candidates
                 /\ resp.question[1].id \notin previous

C7_Witness ==
    /\ req.op = "quiz"
    /\ ~req.session
    /\ req.cat = 1
    /\ req.prev = <<1>>
    /\ resp.status = 200

\* C8: in a quiz session (the client starts with no previous questions and
\* appends each returned identifier, the store unmodified) no question is
\* returned twice, and the request that follows n successful responses, n the
\* number of candidates, is the one that yields NotFound.
C8_SessionExhaustion ==
    (req.op = "quiz" /\ req.session) =>
        LET candidates ==
                IF req.cat = 0 THEN Ids(questions)
                ELSE {q.id : q \in {r \in Range(questions) : r.category = req.cat}}
            n == Cardinality(candidates)
            successes == Len(req.prev)
        IN  /\ Cardinality(Range(req.prev)) = successes
            /\ Range(req.prev) \subseteq candidates
            /\ IF successes < n
               THEN /\ resp.status = 200
                    /\ resp.question[1].id \notin Range(req.prev)
               ELSE /\ successes = n
                    /\ resp = not_found

C8_Witness ==
    /\ req.op = "quiz"
    /\ req.session
    /\ req.cat = 1
    /\ Len(req.prev) >= 2
    /\ resp = not_found

\* C9: search returns exactly the questions whose question text contains the
\* term as a substring, compared case-insensitively; totalQuestions is the
\* number of matches, currentCategory is null, and no match yields NotFound.
C9_SearchSubstring ==
    req.op = "search" =>
        LET matching ==
                SelectSeq(questions,
                    LAMBDA q : IsSubstring(Lower(req.term), Lower(q.question)))
        IN  IF Len(matching) = 0
            THEN resp = not_found
            ELSE /\ resp.status = 200
                 /\ resp.questions = matching
                 /\ resp.totalQuestions = Len(matching)
                 /\ resp.currentCategory = NULL

\* C10: the stored state changes only by a successful create adding one
\* question or a successful delete removing one; reads and failed requests
\* leave it unchanged, no stored question's fields change, and the
\* categories never change.
C10_Frame ==
    [][/\ categories' = categories
       /\ \A i \in 1..Len(questions), j \in 1..Len(questions') :
            questions[i].id = questions'[j].id => questions[i] = questions'[j]
       /\ questions' # questions =>
            /\ resp'.status = 200
            /\ \/ /\ req'.op = "create"
                  /\ Len(questions') = Len(questions) + 1
                  /\ SubSeq(questions', 1, Len(questions)) = questions
                  /\ questions'[Len(questions')].id \notin Ids(questions)
               \/ /\ req'.op = "delete"
                  /\ req'.id \in Ids(questions)
                  /\ Len(questions') = Len(questions) - 1
                  /\ questions' =
                       SelectSeq(questions, LAMBDA q : q.id # req'.id)
       /\ (resp'.status # 200 \/ req'.op \notin {"create", "delete"}) =>
            questions' = questions]_vars

C10_Witness ==
    /\ req.op = "create"
    /\ resp.status = 200
    /\ deleted # {}
    /\ Len(questions) = SeedSize

====
